---- MODULE Spec2Model ----
(***************************************************************************)
(* State-machine model of guillotina_elasticsearch/commands/vacuum.py:     *)
(* the Vacuum reconciler (check_orphans, check_missing and their paged     *)
(* scanners) and the VacuumCommand orchestrator (run / do_check).          *)
(*                                                                         *)
(* Ids (zoids) are small integers so that ORDER BY has a meaning; the      *)
(* textual form of an oid, which only get_indexes_for_oids looks at, is    *)
(* given by OidText.  Every action is one stretch of code between two      *)
(* awaits of a do_check task.                                              *)
(***************************************************************************)
EXTENDS Integers, Sequences, FiniteSets, TLC

(* ------------------------------ bounds -------------------------------- *)
\* number of object ids below the containers
MaxObjects == 4
\* largest commit sequence number (tid) of a store row
MaxTid == 2
\* number of iterations of the continuous loop that are explored
MaxIter == 2
\* number of exceptions raised inside the try block of do_check in one run
MaxFailures == 1
\* number of transport errors raised by scroll continuations in one run
MaxTransportErrors == 1

(* ------------------------- program constants -------------------------- *)
\* PAGE_SIZE = 1000 in the source, scaled down
PAGE_SIZE == 2
\* Migrator(..., bulk_size=10, ...), scaled down
BULK_SIZE == 2
\* guillotina.db.ROOT_ID and TRASHED_ID
ROOT_ID == 0
TRASHED_ID == 1
\* Vacuum.__init__(..., last_tid=-2)
DEFAULT_LAST_TID == -2
\* tid = result.get('fields', {}).get('tid') or [-1]
UNKNOWN_TID == -1
\* result.get('fields', {}).get('parent_uuid', ['_missing_'])[0]
MISSING_PARENT == -1
\* parent_id of the root row (None)
NONE == -3
\* the '|' of an oid
BAR == -4

(* ------------------------------- ids ---------------------------------- *)
Container1 == TRASHED_ID + 1
Container2 == TRASHED_ID + 2
FirstObject == Container2 + 1
Objects == FirstObject .. (FirstObject + MaxObjects - 1)
\* an id that never has a row: the parent of a row whose ancestry is broken
Dangling == FirstObject + MaxObjects
\* the folder that owns the sub-index, and the index names
SubFolder == FirstObject
SubIndexName == Dangling + 1
\* the alias of an installed sub-index whose folder is no longer content
LeftoverIndexName == SubIndexName + 1
IndexNames == {Container1, Container2, SubIndexName}

Tasks == {"check_missing", "check_orphans"}

\* oid as text: the ids right after SubFolder carry its prefix ("4|5")
OidText(oid) ==
    IF oid = SubFolder + 1 THEN <<SubFolder, BAR, oid>> ELSE <<oid>>

(* --------------------------- small helpers ---------------------------- *)
Min(a, b) == IF a < b THEN a ELSE b

SetToSeq(S) ==
    LET RECURSIVE Build(_)
        Build(T) == IF T = {} THEN << >>
                    ELSE LET m == CHOOSE x \in T : \A y \in T : x <= y
                         IN  <<m>> \o Build(T \ {m})
    IN Build(S)

SeqToSet(s) == {s[i] : i \in 1..Len(s)}

\* python s[a:b] on a sequence (0-based, clipped)
Slice(s, a, b) == SubSeq(s, a + 1, Min(b, Len(s)))

\* f with f[k] = v, k added to the domain when new (dict assignment)
Put(f, k, v) == [x \in DOMAIN f \cup {k} |-> IF x = k THEN v ELSE f[x]]

\* f without the keys in K
Drop(f, K) == [x \in DOMAIN f \ K |-> f[x]]

EmptyMap == [x \in {} |-> 0]

(* ------------------------ the store (objects table) ------------------- *)
\* A store is a function from the zoids that have a row to
\* [parent_id, tid]; a cursor row is [zoid, parent_id, tid].
RowOf(st, z) == [zoid |-> z, parent_id |-> st[z].parent_id, tid |-> st[z].tid]

IdSpan == SubIndexName + 1

\* rows of S as a sequence ordered by Key (a total order on S)
OrderRows(S, Key(_)) ==
    LET RECURSIVE Build(_)
        Build(T) == IF T = {} THEN << >>
                    ELSE LET m == CHOOSE x \in T : \A y \in T : Key(x) <= Key(y)
                         IN  <<m>> \o Build(T \ {m})
    IN Build(S)

\* GET_OBS_BY_TID: every row, ORDER BY tid ASC, zoid ASC.  The statement
\* has no parameter: no lower bound on tid is part of the query.
GET_OBS_BY_TID(st) ==
    LET Key(r) == r.tid * IdSpan + r.zoid
    IN  OrderRows({RowOf(st, z) : z \in DOMAIN st}, Key)

\* GET_CHILDREN_BY_PARENT: WHERE parent_id = ANY($1) ORDER BY parent_id
GET_CHILDREN_BY_PARENT(st, oids) ==
    LET Key(r) == r.parent_id * IdSpan + r.zoid
    IN  OrderRows({RowOf(st, z) : z \in {y \in DOMAIN st :
                                           st[y].parent_id \in SeqToSet(oids)}},
                  Key)

\* SELECT_BY_KEYS: the zoids among keys that have a row
SELECT_BY_KEYS(st, keys) == {z \in SeqToSet(keys) : z \in DOMAIN st}

\* GET_CONTAINERS: select zoid where parent_id = $1
GET_CONTAINERS(st, parent) == {z \in DOMAIN st : st[z].parent_id = parent}

\* guillotina.utils.get_containers: the containers under the root, in order
ContainerList(st) == SetToSeq(GET_CONTAINERS(st, ROOT_ID))

\* the rows below oid, at any depth
RECURSIVE Descendants(_, _)
Descendants(st, oid) ==
    LET kids == {z \in DOMAIN st : st[z].parent_id = oid}
    IN  kids \cup UNION {Descendants(st, k) : k \in kids}

(* ------------------------ the index (partitions) ---------------------- *)
\* index[name] is a function from the _ids of the partition to
\* [tid, parent_uuid]; tid = UNKNOWN_TID stands for a document without a
\* stored tid field, parent_uuid = MISSING_PARENT for one without parent_uuid.

\* index['oid'].rsplit('|', 1)[0]
RSplitBar(text) ==
    LET bars == {i \in 1..Len(text) : text[i] = BAR}
    IN  IF bars = {} THEN text
        ELSE SubSeq(text, 1, (CHOOSE i \in bars : \A j \in bars : j <= i) - 1)

\* oid.startswith(prefix)
StartsWith(text, prefix) ==
    /\ Len(prefix) <= Len(text)
    /\ SubSeq(text, 1, Len(prefix)) = prefix

\* Vacuum.get_indexes_for_oids
get_indexes_for_oids(index_name, sub_indexes, oids) ==
    LET RECURSIVE Walk(_)
        Walk(i) ==
            IF i > Len(sub_indexes) THEN << >>
            ELSE LET prefix == RSplitBar(OidText(sub_indexes[i].oid))
                     hit == /\ prefix # << >>
                            /\ \E k \in 1..Len(oids) :
                                   StartsWith(OidText(oids[k]), prefix)
                 IN  (IF hit THEN <<sub_indexes[i].index>> ELSE << >>)
                     \o Walk(i + 1)
    IN  <<index_name>> \o Walk(1)

\* conn.search(indexes, terms uuid in oids, stored_fields tid,parent_uuid)
\* folded into the es_batch dict of check_missing (a later hit overwrites)
EsBatch(idx, indexes, oids) ==
    LET found == {o \in SeqToSet(oids) :
                     \E i \in 1..Len(indexes) : o \in DOMAIN idx[indexes[i]]}
        last(o) == CHOOSE i \in 1..Len(indexes) :
                     /\ o \in DOMAIN idx[indexes[i]]
                     /\ \A j \in 1..Len(indexes) :
                            o \in DOMAIN idx[indexes[j]] => j <= i
    IN  [o \in found |-> idx[indexes[last(o)]][o]]

\* conn.search(index, sort _doc): the ids of a partition, in index order
ScrollIds(idx, name) == SetToSeq(DOMAIN idx[name])

\* the partition an object's document is written to (lookup_index=True)
HomeIndex(container, sub_indexes, oid) ==
    IF \E i \in 1..Len(sub_indexes) :
           /\ oid # sub_indexes[i].oid
           /\ StartsWith(OidText(oid), OidText(sub_indexes[i].oid))
    THEN (CHOOSE d \in SeqToSet(sub_indexes) :
             /\ oid # d.oid
             /\ StartsWith(OidText(oid), OidText(d.oid))).index
    ELSE container

(* ------------------------------ state --------------------------------- *)
VARIABLES
    store,          \* the objects table
    index,          \* the search index, by partition name
    content_sub,    \* get_content_sub_indexes(container), by container
    installed_sub,  \* get_installed_sub_indexes(container): alias names
    continuous,     \* arguments.continuous
    malformed,      \* the zoids whose row does not deserialize (reader raises)
    state,          \* VacuumCommand.state: container oid -> last_tid
    ctl,            \* do_check frame of each task: pc, first_run, position
    vac,            \* the Vacuum object of each task's current pass
    gen,            \* frames of the generators and loops of the current check
    mig,            \* the Migrator (repair dispatcher) of each task
    hist            \* history of the run (what was called, in which order)

vars == <<store, index, content_sub, installed_sub, continuous, malformed,
          state, ctl, vac, gen, mig, hist>>

env == <<store, content_sub, continuous, malformed>>

(* --------------------------- Vacuum.get_object ------------------------ *)
\* Vacuum.get_object: what the load of oid and of its parent chain ends
\* with.  storage.load raises KeyError for an id without a row; reader
\* raises on a row of unexpected shape (AttributeError or TypeError, here
\* "TypeError"); the parent chain is resolved through the same path.
\* (self.cache is never written, and the two read-through caches hold what
\* the store holds.)
RECURSIVE get_object_error(_, _)
get_object_error(st, oid) ==
    IF oid \notin DOMAIN st THEN "KeyError"
    ELSE IF oid \in malformed THEN "TypeError"
    ELSE IF st[oid].parent_id = NONE THEN "none"
    ELSE get_object_error(st, st[oid].parent_id)

\* TRUE when the object and every ancestor load
get_object_ok(st, oid) == get_object_error(st, oid) = "none"

(* --------------------------- initial values --------------------------- *)
\* Vacuum.__init__
NewVacuum(last_tid) ==
    [last_tid |-> last_tid, start_tid |-> last_tid, last_zoid |-> NONE,
     use_tid_query |-> TRUE,
     orphaned |-> {}, missing |-> {}, out_of_date |-> {},
     index_name |-> NONE, sub_indexes |-> << >>]

NewGen ==
    [indexes |-> << >>, i |-> 0, snap |-> << >>, off |-> 0,
     es_page |-> << >>, index_name |-> NONE, orphaned |-> {}, page_no |-> 0,
     rows |-> << >>, oids |-> << >>, new_oids |-> << >>, pos |-> 0,
     cur |-> << >>, page |-> << >>, resume |-> "none",
     batch |-> << >>, es_batch |-> EmptyMap, rec |-> 0, checked |-> 0,
     flushed |-> FALSE, cleanup |-> << >>]

\* Migrator(utility, container, full=True, bulk_size=10, lookup_index=True)
NewMigrator == [batch |-> << >>, inflight |-> {}, sent |-> 0]

NewCtl == [pc |-> "loop", first_run |-> TRUE, pos |-> 0, iter |-> 0,
           container |-> NONE]

NewHist ==
    [failures |-> 0, transport_errors |-> 0,
     passes |-> [t \in Tasks |-> 0],
     raised |-> {},
     tm_aborts |-> [t \in Tasks |-> 0],
     sleeps |-> [t \in Tasks |-> 0],
     queries |-> {}, deletes |-> {}, yields |-> << >>, broken |-> {},
     classified |-> {}, scanned |-> {}, skipped |-> {}, flushes |-> {},
     reports |-> {}, writes |-> {}, modes |-> {}, index0 |-> EmptyMap,
     closed |-> {}, removed |-> {}, cleanup_errors |-> {}]

\* every function on D with f[x] \in S(x)
DepFuns(D, S(_)) ==
    LET RECURSIVE Build(_)
        Build(T) == IF T = {} THEN {EmptyMap}
                    ELSE LET x == CHOOSE y \in T : TRUE
                         IN  {Put(f, x, v) : f \in Build(T \ {x}), v \in S(x)}
    IN Build(D)

\* the root and the containers' rows
BaseStore(multi) ==
    [z \in {ROOT_ID, Container1} \cup (IF multi THEN {Container2} ELSE {}) |->
        IF z = ROOT_ID THEN [parent_id |-> NONE, tid |-> 0]
        ELSE [parent_id |-> ROOT_ID, tid |-> 1]]

\* the store with the object rows a added
MkStore(multi, a) ==
    [z \in DOMAIN BaseStore(multi) \cup DOMAIN a |->
        IF z \in DOMAIN a THEN a[z] ELSE BaseStore(multi)[z]]

SubDescriptor == [index |-> SubIndexName, oid |-> SubFolder]

\* the index that holds the documents d (a function from ids), each in
\* the partition that owns its id
MkIndex(subs, d) ==
    [n \in IndexNames |->
        [o \in {x \in DOMAIN d : HomeIndex(Container1, subs, x) = n} |-> d[o]]]

\* the command at the start of run(): state = {} and two do_check frames
ControlStart ==
    /\ state = EmptyMap
    /\ ctl = [t \in Tasks |-> NewCtl]
    /\ vac = [t \in Tasks |-> NewVacuum(DEFAULT_LAST_TID)]
    /\ gen = [t \in Tasks |-> NewGen]
    /\ mig = [t \in Tasks |-> NewMigrator]

ControlInit ==
    /\ ControlStart
    /\ hist = NewHist

(* ------------------- VacuumCommand.do_check: the loop ------------------ *)
\* One do_check task per check name, started together by run()
\* (asyncio.gather); a task gives way to the other at an await only.

Goto(t, label) == ctl' = [ctl EXCEPT ![t].pc = label]

\* (variant: the sleep is taken before the first pass as well)
DoCheckLoopSleepsFirst(t) ==
    /\ ctl[t].pc = "loop"
    /\ IF continuous \/ ctl[t].first_run
       THEN /\ ctl[t].iter < MaxIter
            /\ ctl' = [ctl EXCEPT ![t].first_run = FALSE, ![t].pc = "sleep"]
       ELSE Goto(t, "done")
    /\ UNCHANGED <<env, index, installed_sub, state, vac, gen, mig, hist>>

\* while arguments.continuous or first_run: ... (the exploration stops
\* after MaxIter iterations of a continuous run)
DoCheckLoop(t) ==
    /\ ctl[t].pc = "loop"
    /\ IF continuous \/ ctl[t].first_run
       THEN /\ ctl[t].iter < MaxIter
            /\ IF ~ctl[t].first_run
               THEN Goto(t, "sleep")
               ELSE ctl' = [ctl EXCEPT ![t].first_run = FALSE,
                                       ![t].pc = "containers",
                                       ![t].pos = 1]
       ELSE Goto(t, "done")
    /\ UNCHANGED <<env, index, installed_sub, state, vac, gen, mig, hist>>

\* await asyncio.sleep(arguments.sleep)
Sleep(t) ==
    /\ ctl[t].pc = "sleep"
    /\ ctl' = [ctl EXCEPT ![t].pc = "containers", ![t].pos = 1]
    /\ hist' = [hist EXCEPT !.sleeps[t] = @ + 1]
    /\ UNCHANGED <<env, index, installed_sub, state, vac, gen, mig>>

\* async for txn, tm, container in get_containers(self.request)
NextContainer(t) ==
    /\ ctl[t].pc = "containers"
    /\ IF ctl[t].pos <= Len(ContainerList(store))
       THEN /\ ctl' = [ctl EXCEPT
                          ![t].pc = "construct",
                          ![t].container = ContainerList(store)[ctl[t].pos]]
            /\ hist' = [hist EXCEPT !.passes[t] = @ + 1]
       ELSE /\ ctl' = [ctl EXCEPT ![t].pc = "loop", ![t].iter = @ + 1,
                                  ![t].container = NONE]
            /\ UNCHANGED hist
    /\ UNCHANGED <<env, index, installed_sub, state, vac, gen, mig>>

\* kwargs = self.state[container._p_oid] if present;
\* vacuum = self.vacuum_klass(txn, tm, self.request, container, **kwargs)
Construct(t) ==
    /\ ctl[t].pc = "construct"
    /\ LET c == ctl[t].container
           last_tid == IF c \in DOMAIN state THEN state[c] ELSE DEFAULT_LAST_TID
       IN  vac' = [vac EXCEPT ![t] = NewVacuum(last_tid)]
    /\ gen' = [gen EXCEPT ![t] = NewGen]
    /\ mig' = [mig EXCEPT ![t].batch = << >>]
    /\ Goto(t, "setup")
    /\ UNCHANGED <<env, index, installed_sub, state, hist>>

\* Vacuum.setup: CREATE INDEX under the lock (any exception swallowed), then
\* the index name and the content sub-indexes; func = getattr(vacuum, name)
Setup(t) ==
    /\ ctl[t].pc = "setup"
    /\ vac' = [vac EXCEPT ![t].index_name = ctl[t].container,
                          ![t].sub_indexes = content_sub[ctl[t].container]]
    /\ Goto(t, IF t = "check_missing" THEN "cm_start" ELSE "co_start")
    /\ UNCHANGED <<env, index, installed_sub, state, gen, mig, hist>>

\* the program points inside the try block of do_check
InTry ==
    {"construct", "setup", "cm_start", "db_fetch", "fb_open", "fb_more",
     "es_lookup", "classify", "flush", "join", "co_start", "es_search",
     "co_fetch", "co_delete", "es_scroll", "clean", "clean_close",
     "clean_delete"}

\* (variant: the exception leaves do_check)
ThrowPropagates(t) ==
    /\ ctl[t].pc \in InTry
    /\ hist.failures < MaxFailures
    /\ hist' = [hist EXCEPT !.failures = @ + 1,
                             !.raised = @ \cup {[task |-> t,
                                                  pass |-> hist.passes[t]]}]
    /\ Goto(t, "crashed")
    /\ UNCHANGED <<env, index, installed_sub, state, vac, gen, mig>>

\* the call awaited at the current point raises: except Exception logs
\* 'Error vacuuming', and the finally clause runs next
Throw(t) ==
    /\ ctl[t].pc \in InTry
    /\ hist.failures < MaxFailures
    /\ hist' = [hist EXCEPT !.failures = @ + 1,
                             !.raised = @ \cup {[task |-> t,
                                                  pass |-> hist.passes[t]]}]
    /\ Goto(t, "abort")
    /\ UNCHANGED <<env, index, installed_sub, state, vac, gen, mig>>

\* do_check after `await func()` has returned: the checkpoint write and
\* the 'Finished vacuuming' report, up to the await of clean_orphan_indexes
StateAfterCheck(t, v) ==
    IF v.last_tid > 0 THEN Put(state, ctl[t].container, v.last_tid) ELSE state

\* number of repairs handed to migrator m in this pass and not yet written
Pending(m, pass) ==
    LET own == {b \in m.inflight : b.pass = pass}
        RECURSIVE Sum(_)
        Sum(B) == IF B = {} THEN 0
                  ELSE LET b == CHOOSE x \in B : TRUE
                       IN  Len(b.ops) + Sum(B \ {b})
    IN  Len(m.batch) + Sum(own)

HistAfterCheck(h, t, v, g, m) ==
    [h EXCEPT
        !.reports = @ \cup {[task |-> t, pass |-> h.passes[t],
                             iter |-> ctl[t].iter,
                             container |-> ctl[t].container,
                             flushed |-> g.flushed,
                             pending |-> Pending(m, h.passes[t]),
                             orphaned |-> v.orphaned,
                             last_tid |-> v.last_tid]},
        !.writes = IF v.last_tid > 0
                   THEN @ \cup {[task |-> t, pass |-> h.passes[t],
                                 container |-> ctl[t].container,
                                 read |-> IF ctl[t].container \in DOMAIN state
                                          THEN state[ctl[t].container]
                                          ELSE DEFAULT_LAST_TID,
                                 value |-> v.last_tid]}
                   ELSE @]

\* content_indexes = [val['index'] for val in get_content_sub_indexes(..)]
ContentIndexes(c) == {content_sub[c][i].index : i \in 1..Len(content_sub[c])}

\* (variant: every installed alias is taken for an orphan)
OrphanAliasesAll(installed, content_indexes) == installed

\* the aliases the loop of clean_orphan_indexes acts on:
\* `if alias_name not in content_indexes`
OrphanAliases(installed, content_indexes) == installed \ content_indexes

\* clean_orphan_indexes(container), up to the first call that changes the
\* search backend: the installed aliases and the content sub-indexes are
\* read, and the loop starts on the aliases it will act on (cleanup); with
\* none of them the function returns
clean_orphan_indexes(t) ==
    /\ ctl[t].pc = "clean"
    /\ LET c == ctl[t].container
           todo == SetToSeq(OrphanAliases(installed_sub[c], ContentIndexes(c)))
       IN  /\ gen' = [gen EXCEPT ![t].cleanup = todo]
           /\ Goto(t, IF todo = << >> THEN "abort" ELSE "clean_close")
    /\ UNCHANGED <<env, index, installed_sub, state, vac, mig, hist>>

CleanupRecord(t, alias) ==
    [task |-> t, pass |-> hist.passes[t], container |-> ctl[t].container,
     alias |-> alias, content |-> ContentIndexes(ctl[t].container)]

\* the call on an index that is no longer installed raises (not found):
\* the exception leaves clean_orphan_indexes and is caught in do_check
CleanupRaises(t, alias) ==
    /\ hist' = [hist EXCEPT
                   !.cleanup_errors = @ \cup {CleanupRecord(t, alias)},
                   !.raised = @ \cup {[task |-> t, pass |-> hist.passes[t]]}]
    /\ Goto(t, "abort")
    /\ UNCHANGED <<env, index, installed_sub, state, vac, gen, mig>>

\* await search.conn.indices.close(alias_name)
CleanClose(t) ==
    /\ ctl[t].pc = "clean_close"
    /\ LET alias == Head(gen[t].cleanup)
       IN  IF alias \notin installed_sub[ctl[t].container]
           THEN CleanupRaises(t, alias)
           ELSE /\ hist' = [hist EXCEPT
                               !.closed = @ \cup {CleanupRecord(t, alias)}]
                /\ Goto(t, "clean_delete")
                /\ UNCHANGED <<env, index, installed_sub, state, vac, gen,
                               mig>>

\* await search.conn.indices.delete_alias(index, alias_name);
\* await search.conn.indices.delete(index); then the next alias
CleanDelete(t) ==
    /\ ctl[t].pc = "clean_delete"
    /\ LET c == ctl[t].container
           alias == Head(gen[t].cleanup)
           rest == Tail(gen[t].cleanup)
       IN  IF alias \notin installed_sub[c]
           THEN CleanupRaises(t, alias)
           ELSE /\ installed_sub' = [installed_sub EXCEPT ![c] = @ \ {alias}]
                /\ index' = [n \in IndexNames |->
                                 IF n = alias THEN EmptyMap ELSE index[n]]
                /\ hist' = [hist EXCEPT
                               !.removed = @ \cup {CleanupRecord(t, alias)}]
                /\ gen' = [gen EXCEPT ![t].cleanup = rest]
                /\ Goto(t, IF rest = << >> THEN "abort" ELSE "clean_close")
                /\ UNCHANGED <<env, state, vac, mig>>

\* finally: await tm.abort(txn=txn); then the next container
Abort(t) ==
    /\ ctl[t].pc = "abort"
    /\ ctl' = [ctl EXCEPT ![t].pc = "containers", ![t].pos = @ + 1]
    /\ hist' = [hist EXCEPT !.tm_aborts[t] = @ + 1]
    /\ UNCHANGED <<env, index, installed_sub, state, vac, gen, mig>>

(* ------------------- the store connection and its lock ----------------- *)
\* (variant: both tasks are handed one transaction)
TxnShared(t) == [task |-> "request", pass |-> 0]

\* the transaction get_containers yielded to task t for its current pass
\* (async for txn, tm, container ...; aborted in the finally clause of
\* the same pass).  self.txn.get_connection() is the connection of that
\* transaction and self.txn._lock its lock.
Txn(t) == [task |-> t, pass |-> hist.passes[t]]

\* the store call task t is suspended in: conn.execute (CREATE INDEX),
\* conn.fetch (GET_CONTAINERS, SELECT_BY_KEYS), cur.fetch on a cursor, or
\* the storage.load of get_object
StoreCall(t) ==
    CASE ctl[t].pc = "setup" -> "execute"
      [] ctl[t].pc \in {"cm_start", "co_fetch"} -> "fetch"
      [] ctl[t].pc \in {"db_fetch", "fb_open", "fb_more"} -> "cursor"
      [] ctl[t].pc = "classify" /\ gen[t].rec <= Len(gen[t].batch) -> "load"
      [] OTHER -> "none"

\* task t is inside `async with self.txn._lock`
HoldsLock(t) == ctl[t].pc \in {"setup", "cm_start", "co_fetch"}

(* ----------------- Vacuum.check_orphans and its scanner ---------------- *)
\* conn = await self.txn.get_connection(); the scanner lists the main
\* index, then each sub-index
CoStart(t) ==
    /\ ctl[t].pc = "co_start"
    /\ gen' = [gen EXCEPT
                 ![t].indexes = <<vac[t].index_name>> \o
                     [k \in 1..Len(vac[t].sub_indexes) |->
                         vac[t].sub_indexes[k].index],
                 ![t].i = 1]
    /\ Goto(t, "es_search")
    /\ UNCHANGED <<env, index, installed_sub, state, vac, mig, hist>>

\* iter_batched_es_keys: the first page of a partition (conn.search with
\* scroll='15m', size=PAGE_SIZE) is yielded with the partition's name
EsSearch(t) ==
    /\ ctl[t].pc = "es_search"
    /\ LET g == gen[t]
           name == g.indexes[g.i]
           snap == ScrollIds(index, name)
           page == Slice(snap, 0, PAGE_SIZE)
       IN  /\ gen' = [gen EXCEPT ![t].snap = snap, ![t].off = PAGE_SIZE,
                                 ![t].es_page = page, ![t].index_name = name,
                                 ![t].page_no = @ + 1,
                                 ![t].checked = @ + Len(page)]
           /\ hist' = [hist EXCEPT !.yields = Append(@,
                          [task |-> t, pass |-> hist.passes[t], ipos |-> g.i,
                           index |-> name, page |-> page])]
    /\ Goto(t, "co_fetch")
    /\ UNCHANGED <<env, index, installed_sub, state, vac, mig>>

\* (variant: the store's answer is not subtracted)
OrphanedUnchecked(es_batch, db_batch) == SeqToSet(es_batch)

\* orphaned = [k for k in set(es_batch) - db_batch]
Orphaned(es_batch, db_batch) == SeqToSet(es_batch) \ db_batch

\* check_orphans: SELECT_BY_KEYS on the page under the lock, then the diff
CoFetch(t) ==
    /\ ctl[t].pc = "co_fetch"
    /\ LET g == gen[t]
           db_batch == SELECT_BY_KEYS(store, g.es_page)
           orphaned == Orphaned(g.es_page, db_batch)
       IN  /\ gen' = [gen EXCEPT ![t].orphaned = orphaned]
           /\ vac' = [vac EXCEPT ![t].orphaned = @ \cup orphaned]
           /\ hist' = [hist EXCEPT !.queries = @ \cup
                          {[task |-> t, pass |-> hist.passes[t],
                            page_no |-> g.page_no, index |-> g.index_name,
                            keys |-> SeqToSet(g.es_page), result |-> db_batch]}]
           /\ Goto(t, IF orphaned # {} THEN "co_delete" ELSE "es_scroll")
    /\ UNCHANGED <<env, index, installed_sub, state, mig>>

\* (variant: the handling of the response has no except clause)
DeleteResponseUncaught(readable, deleted, n) ==
    IF ~readable \/ deleted # n THEN "raise" ELSE "none"

\* check_orphans, the handling of the delete-by-query response: what is
\* logged.  resp.json() raises on a response that cannot be read; with a
\* count that differs the message is built with len(data["deleted"]),
\* which raises TypeError on the integer; `except Exception` catches both
\* and logs 'Could not parse delete by query response'.
DeleteResponse(readable, deleted, n) ==
    IF ~readable THEN "could not parse"
    ELSE IF deleted # n THEN "could not parse"
    ELSE "none"

\* the delete-by-query of the orphaned ids of a page: done are the ids the
\* backend deleted, readable tells whether its response parses
DeleteByQuery(t, done, readable) ==
    LET g == gen[t]
        log == DeleteResponse(readable, Cardinality(done),
                              Cardinality(g.orphaned))
    IN  /\ index' = [index EXCEPT ![g.index_name] = Drop(@, done)]
        /\ hist' = [hist EXCEPT !.deletes = @ \cup
                       {[task |-> t, pass |-> hist.passes[t],
                         page_no |-> g.page_no, index |-> g.index_name,
                         ids |-> g.orphaned,
                         deleted |-> Cardinality(done),
                         readable |-> readable, log |-> log]}]
        /\ Goto(t, IF log = "raise" THEN "abort" ELSE "es_scroll")

\* check_orphans: POST <index_name>/_delete_by_query {terms: {_id: orphaned}},
\* every id deleted and counted
CoDelete(t) ==
    /\ ctl[t].pc = "co_delete"
    /\ DeleteByQuery(t, gen[t].orphaned, TRUE)
    /\ UNCHANGED <<env, installed_sub, state, vac, gen, mig>>

\* the same POST answered with a count that differs (some ids were not
\* deleted) or with a response that cannot be read
CoDeleteDegraded(t) ==
    /\ ctl[t].pc = "co_delete"
    /\ \E done \in SUBSET gen[t].orphaned, readable \in BOOLEAN :
          /\ ~readable \/ done # gen[t].orphaned
          /\ DeleteByQuery(t, done, readable)
    /\ UNCHANGED <<env, installed_sub, state, vac, gen, mig>>

\* iter_batched_es_keys: `break` out of the scroll loop of a partition; the
\* for loop takes the next partition, and after the last one check_orphans
\* returns to do_check.  h is the history up to the break.
EsBreak(t, h) ==
    IF gen[t].i < Len(gen[t].indexes)
    THEN /\ gen' = [gen EXCEPT ![t].i = @ + 1]
         /\ hist' = h
         /\ Goto(t, "es_search")
         /\ UNCHANGED state
    ELSE /\ state' = StateAfterCheck(t, vac[t])
         /\ hist' = HistAfterCheck(h, t, vac[t], gen[t], mig[t])
         /\ Goto(t, "clean")
         /\ UNCHANGED gen

\* iter_batched_es_keys: conn.scroll(scroll_id, scroll='5m') answers
EsScroll(t) ==
    /\ ctl[t].pc = "es_scroll"
    /\ LET g == gen[t]
           hits == Slice(g.snap, g.off, g.off + PAGE_SIZE)
       IN  IF Len(hits) = 0
           THEN EsBreak(t, hist)
           ELSE /\ gen' = [gen EXCEPT ![t].off = @ + PAGE_SIZE,
                                      ![t].es_page = hits,
                                      ![t].page_no = @ + 1,
                                      ![t].checked = @ + Len(hits)]
                /\ hist' = [hist EXCEPT !.yields = Append(@,
                               [task |-> t, pass |-> hist.passes[t],
                                ipos |-> g.i, index |-> g.index_name,
                                page |-> hits])]
                /\ Goto(t, "co_fetch")
                /\ UNCHANGED state
    /\ UNCHANGED <<env, index, installed_sub, vac, mig>>

\* (variant: the TransportError is not caught in the scanner)
EsScrollTransportErrorRaises(t) ==
    /\ ctl[t].pc = "es_scroll"
    /\ hist.transport_errors < MaxTransportErrors
    /\ hist' = [hist EXCEPT !.transport_errors = @ + 1,
                             !.broken = @ \cup
                                 {[task |-> t, pass |-> hist.passes[t],
                                   ipos |-> gen[t].i,
                                   n |-> Len(gen[t].indexes),
                                   yielded |-> Len(hist.yields)]}]
    /\ Goto(t, "abort")
    /\ UNCHANGED <<env, index, installed_sub, state, vac, gen, mig>>

\* iter_batched_es_keys: conn.scroll raises TransportError: `break`
EsScrollTransportError(t) ==
    /\ ctl[t].pc = "es_scroll"
    /\ hist.transport_errors < MaxTransportErrors
    /\ EsBreak(t, [hist EXCEPT !.transport_errors = @ + 1,
                               !.broken = @ \cup
                                   {[task |-> t, pass |-> hist.passes[t],
                                     ipos |-> gen[t].i,
                                     n |-> Len(gen[t].indexes),
                                     yielded |-> Len(hist.yields)]}])
    /\ UNCHANGED <<env, index, installed_sub, vac, mig>>

(* ----------------- Vacuum.check_missing and its scanner ---------------- *)
Zoids(batch) == [k \in 1..Len(batch) |-> batch[k].zoid]

\* the scan chosen by a pass, with the number of containers the query
\* returned and the last_tid the Vacuum was constructed with
ModeRecord(t, containers, use_tid) ==
    [pass |-> hist.passes[t], scopes |-> Cardinality(containers),
     ordered |-> use_tid, start |-> vac[t].start_tid]

\* the first step of iter_paged_db_keys([container._p_oid]): the cursor of
\* the tid query, or the first level of the children walk
OpenScan(t, use_tid) ==
    IF use_tid
    THEN /\ gen' = [gen EXCEPT ![t].rows = GET_OBS_BY_TID(store),
                               ![t].off = 0]
         /\ Goto(t, "db_fetch")
    ELSE /\ gen' = [gen EXCEPT ![t].oids = <<ctl[t].container>>,
                               ![t].pos = 0,
                               ![t].new_oids = << >>]
         /\ Goto(t, "fb_open")

\* (variant: use_tid_query is left as the constructor set it)
CmStartKeepsTidQuery(t) ==
    /\ ctl[t].pc = "cm_start"
    /\ LET containers == GET_CONTAINERS(store, ROOT_ID)
           use_tid == vac[t].use_tid_query
       IN  /\ vac' = [vac EXCEPT ![t].use_tid_query = use_tid]
           /\ hist' = [hist EXCEPT !.modes = @ \cup
                          {ModeRecord(t, containers, use_tid)}]
           /\ OpenScan(t, use_tid)
    /\ UNCHANGED <<env, index, installed_sub, state, mig>>

\* check_missing: GET_CONTAINERS under the lock; with more than one
\* container the tid query is not used.  The first step of
\* iter_paged_db_keys([container._p_oid]) opens the cursor.
CmStart(t) ==
    /\ ctl[t].pc = "cm_start"
    /\ LET containers == GET_CONTAINERS(store, ROOT_ID)
           use_tid == IF Cardinality(containers) > 1 THEN FALSE
                      ELSE vac[t].use_tid_query
       IN  /\ vac' = [vac EXCEPT ![t].use_tid_query = use_tid]
           /\ hist' = [hist EXCEPT !.modes = @ \cup
                          {ModeRecord(t, containers, use_tid)}]
           /\ OpenScan(t, use_tid)
    /\ UNCHANGED <<env, index, installed_sub, state, mig>>

\* the records of a page that iter_paged_db_keys keeps (tid query)
KeptRecords(results, container) ==
    SelectSeq(results,
              LAMBDA r : r.zoid \notin {ROOT_ID, TRASHED_ID, container})

\* iter_paged_db_keys, tid query: cur.fetch(PAGE_SIZE); a page that is not
\* empty is filtered, moves last_tid / last_zoid and is yielded
DbFetch(t) ==
    /\ ctl[t].pc = "db_fetch"
    /\ LET g == gen[t]
           results == Slice(g.rows, g.off, g.off + PAGE_SIZE)
           records == KeptRecords(results, ctl[t].container)
       IN  IF Len(results) = 0
           THEN /\ Goto(t, "flush")
                /\ UNCHANGED <<vac, gen, hist>>
           ELSE /\ gen' = [gen EXCEPT ![t].off = @ + PAGE_SIZE,
                                      ![t].batch = records,
                                      ![t].resume = "db_fetch"]
                /\ vac' = IF Len(records) = 0 THEN vac
                          ELSE [vac EXCEPT
                                  ![t].last_tid = records[Len(records)].tid,
                                  ![t].last_zoid = records[Len(records)].zoid]
                /\ hist' = [hist EXCEPT !.scanned = @ \cup
                               {[pass |-> hist.passes[t],
                                 zoid |-> records[k].zoid,
                                 tid |-> records[k].tid,
                                 ordered |-> TRUE,
                                 lower |-> vac[t].start_tid] : k \in 1..Len(records)}]
                /\ Goto(t, "es_lookup")
    /\ UNCHANGED <<env, index, installed_sub, state, mig>>

\* iter_paged_db_keys, fallback: the head of the inner while loop.  A
\* cursor over the children of oids[pos:pos + PAGE_SIZE] is opened, pos
\* moves by PAGE_SIZE, and the first page is fetched; when the inner loop
\* is over, oids = new_oids.
FbOpen(t) ==
    /\ ctl[t].pc = "fb_open"
    /\ LET g == gen[t]
       IN  IF g.pos * PAGE_SIZE < Len(g.oids)
           THEN LET cur == GET_CHILDREN_BY_PARENT(
                               store, Slice(g.oids, g.pos, g.pos + PAGE_SIZE))
                    page == Slice(cur, 0, PAGE_SIZE)
                IN  /\ gen' = [gen EXCEPT
                                 ![t].pos = @ + PAGE_SIZE,
                                 ![t].cur = Slice(cur, PAGE_SIZE, Len(cur)),
                                 ![t].page = page,
                                 ![t].batch = page,
                                 ![t].resume = "fb_more"]
                    /\ hist' = [hist EXCEPT !.scanned = @ \cup
                                  {[pass |-> hist.passes[t],
                                    zoid |-> page[k].zoid,
                                    tid |-> page[k].tid,
                                    ordered |-> FALSE,
                                    lower |-> vac[t].start_tid] : k \in 1..Len(page)}]
                    /\ Goto(t, IF Len(page) > 0 THEN "es_lookup" ELSE "fb_open")
           ELSE /\ IF Len(g.new_oids) = 0
                   THEN /\ Goto(t, "flush")
                        /\ gen' = [gen EXCEPT ![t].oids = << >>]
                   ELSE /\ Goto(t, "fb_open")
                        /\ gen' = [gen EXCEPT ![t].oids = g.new_oids,
                                              ![t].pos = 0,
                                              ![t].new_oids = << >>]
                /\ UNCHANGED hist
    /\ UNCHANGED <<env, index, installed_sub, state, vac, mig>>

\* iter_paged_db_keys, fallback: resumed after a yield:
\* new_oids.extend(...); page = await cur.fetch(PAGE_SIZE)
FbMore(t) ==
    /\ ctl[t].pc = "fb_more"
    /\ LET g == gen[t]
           page == Slice(g.cur, 0, PAGE_SIZE)
       IN  /\ gen' = [gen EXCEPT
                        ![t].new_oids = @ \o Zoids(g.page),
                        ![t].cur = Slice(g.cur, PAGE_SIZE, Len(g.cur)),
                        ![t].page = page,
                        ![t].batch = page,
                        ![t].resume = "fb_more"]
           /\ hist' = [hist EXCEPT !.scanned = @ \cup
                         {[pass |-> hist.passes[t],
                           zoid |-> page[k].zoid,
                           tid |-> page[k].tid,
                           ordered |-> FALSE,
                           lower |-> vac[t].start_tid] : k \in 1..Len(page)}]
           /\ Goto(t, IF Len(page) > 0 THEN "es_lookup" ELSE "fb_open")
    /\ UNCHANGED <<env, index, installed_sub, state, vac, mig>>

\* check_missing: the candidate partitions of the page are searched for
\* the page's ids; es_batch maps each hit to its tid and parent_uuid
EsLookup(t) ==
    /\ ctl[t].pc = "es_lookup"
    /\ LET oids == Zoids(gen[t].batch)
           indexes == get_indexes_for_oids(vac[t].index_name,
                                           vac[t].sub_indexes, oids)
       IN  gen' = [gen EXCEPT ![t].es_batch = EsBatch(index, indexes, oids),
                              ![t].rec = 1]
    /\ Goto(t, "classify")
    /\ UNCHANGED <<env, index, installed_sub, state, vac, mig, hist>>

(* ------------- classification, process_missing, the Migrator ---------- *)
NODOC == [tid |-> NONE, parent_uuid |-> NONE]

\* (variant: the unknown-version sentinel is not tested)
ClassificationNoSentinel(record, es_batch, container) ==
    IF record.zoid = container THEN "root"
    ELSE IF record.zoid \notin DOMAIN es_batch THEN "missing"
    ELSE IF record.tid > es_batch[record.zoid].tid THEN "out of date"
    ELSE IF record.parent_id # es_batch[record.zoid].parent_uuid THEN "folder"
    ELSE "none"

\* (variant: an id without a document is sent to the subtree reprocess)
ClassificationMissingAsFolder(record, es_batch, container) ==
    IF record.zoid = container THEN "root"
    ELSE IF record.zoid \notin DOMAIN es_batch THEN "folder"
    ELSE IF /\ record.tid > es_batch[record.zoid].tid
            /\ es_batch[record.zoid].tid # UNKNOWN_TID THEN "out of date"
    ELSE IF record.parent_id # es_batch[record.zoid].parent_uuid THEN "folder"
    ELSE "none"

\* (variant: >= where the code compares with >)
ClassificationGe(record, es_batch, container) ==
    IF record.zoid = container THEN "root"
    ELSE IF record.zoid \notin DOMAIN es_batch THEN "missing"
    ELSE IF /\ record.tid >= es_batch[record.zoid].tid
            /\ es_batch[record.zoid].tid # UNKNOWN_TID THEN "out of date"
    ELSE IF record.parent_id # es_batch[record.zoid].parent_uuid THEN "folder"
    ELSE "none"

\* check_missing, the branch taken for one record of the page:
\* "root" (skipped), "missing", "out of date", "folder" or "none"
Classification(record, es_batch, container) ==
    IF record.zoid = container THEN "root"
    ELSE IF record.zoid \notin DOMAIN es_batch THEN "missing"
    ELSE IF /\ record.tid > es_batch[record.zoid].tid
            /\ es_batch[record.zoid].tid # UNKNOWN_TID THEN "out of date"
    ELSE IF record.parent_id # es_batch[record.zoid].parent_uuid THEN "folder"
    ELSE "none"

\* (variant: process_missing without its except clauses)
process_missing_uncaught(st, oid, folder) ==
    IF get_object_error(st, oid) # "none" THEN "raise"
    ELSE IF folder THEN "process" ELSE "index"

\* process_missing(oid, index_type, folder): the operation handed to the
\* migrator; "none" when get_object raised KeyError, AttributeError or
\* TypeError (logged 'Could not find', return); "raise" when it raised
\* anything else, which leaves process_missing
process_missing(st, oid, folder) ==
    LET err == get_object_error(st, oid)
    IN  IF err = "none" THEN (IF folder THEN "process" ELSE "index")
        ELSE IF err \in {"KeyError", "AttributeError", "TypeError"} THEN "none"
        ELSE "raise"

\* Migrator.index_object / process_object: the request joins the batch; a
\* batch of bulk_size requests is sent as one bulk write
MigratorAdd(m, op, pass, container) ==
    LET batch == Append(m.batch, op)
    IN  IF Len(batch) >= BULK_SIZE
        THEN [m EXCEPT !.batch = << >>, !.sent = @ + 1,
                       !.inflight = @ \cup {[pass |-> pass, n |-> m.sent,
                                             container |-> container,
                                             ops |-> batch]}]
        ELSE [m EXCEPT !.batch = batch]

\* Migrator.flush: a partial batch is sent
MigratorFlush(m, pass, container) ==
    IF Len(m.batch) > 0
    THEN [m EXCEPT !.batch = << >>, !.sent = @ + 1,
                   !.inflight = @ \cup {[pass |-> pass, n |-> m.sent,
                                         container |-> container,
                                         ops |-> m.batch]}]
    ELSE m

\* the ids a bulk write of ops (re)indexes: the object, and for a
\* reprocess the rows below it as well
OpIds(st, ops) ==
    UNION {{ops[k].oid} \cup (IF ops[k].op = "process"
                              THEN Descendants(st, ops[k].oid) ELSE {})
           : k \in 1..Len(ops)}

\* the index after the documents of ids were written from the store
WriteDocs(idx, st, container, subs, ids) ==
    [n \in IndexNames |->
        LET mine == {o \in ids : /\ o \in DOMAIN st
                                 /\ HomeIndex(container, subs, o) = n}
        IN  [o \in DOMAIN idx[n] \cup mine |->
                IF o \in mine
                THEN [tid |-> st[o].tid, parent_uuid |-> st[o].parent_id]
                ELSE idx[n][o]]]

\* check_missing: one record of the page is classified and, unless it is
\* consistent, handed to process_missing; after the last record the
\* scanner is resumed.  An exception that leaves process_missing leaves
\* check_missing as well (except Exception in do_check, then finally).
Classify(t) ==
    /\ ctl[t].pc = "classify"
    /\ LET g == gen[t]
       IN  IF g.rec > Len(g.batch)
           THEN /\ gen' = [gen EXCEPT ![t].checked = @ + Len(g.batch)]
                /\ Goto(t, g.resume)
                /\ UNCHANGED <<vac, mig, hist>>
           ELSE LET record == g.batch[g.rec]
                    oid == record.zoid
                    kind == Classification(record, g.es_batch, ctl[t].container)
                    op == IF kind \in {"root", "none"} THEN "none"
                          ELSE process_missing(store, oid, kind = "folder")
                IN  /\ gen' = [gen EXCEPT ![t].rec = @ + 1]
                    /\ vac' = [vac EXCEPT
                                 ![t].missing =
                                     IF kind \in {"missing", "folder"}
                                     THEN @ \cup {oid} ELSE @,
                                 ![t].out_of_date =
                                     IF kind = "out of date"
                                     THEN @ \cup {oid} ELSE @]
                    /\ mig' = IF op \in {"none", "raise"} THEN mig
                              ELSE [mig EXCEPT ![t] =
                                      MigratorAdd(@, [oid |-> oid, op |-> op],
                                                  hist.passes[t],
                                                  ctl[t].container)]
                    /\ hist' = [hist EXCEPT
                                 !.classified = @ \cup
                                   {[pass |-> hist.passes[t],
                                     iter |-> ctl[t].iter,
                                     container |-> ctl[t].container,
                                     oid |-> oid,
                                     tid |-> record.tid,
                                     parent_id |-> record.parent_id,
                                     doc |-> IF oid \in DOMAIN g.es_batch
                                             THEN g.es_batch[oid] ELSE NODOC,
                                     loaded |-> get_object_ok(store, oid),
                                     kind |-> kind, op |-> op]},
                                 !.skipped = IF kind \notin {"root", "none"}
                                                /\ op = "none"
                                             THEN @ \cup
                                               {[pass |-> hist.passes[t],
                                                 oid |-> oid]}
                                             ELSE @]
                    /\ IF op = "raise" THEN Goto(t, "abort")
                       ELSE UNCHANGED ctl
    /\ UNCHANGED <<env, index, installed_sub, state>>

\* check_missing after the last page: await self.migrator.flush()
Flush(t) ==
    /\ ctl[t].pc = "flush"
    /\ mig' = [mig EXCEPT ![t] = MigratorFlush(@, hist.passes[t],
                                               ctl[t].container)]
    /\ gen' = [gen EXCEPT ![t].flushed = TRUE]
    /\ hist' = [hist EXCEPT !.flushes = @ \cup
                   {[pass |-> hist.passes[t],
                     exhausted |-> IF vac[t].use_tid_query
                                   THEN gen[t].off >= Len(gen[t].rows)
                                   ELSE gen[t].oids = << >>,
                     classified |-> \/ gen[t].batch = << >>
                                    \/ gen[t].rec > Len(gen[t].batch)]}]
    /\ Goto(t, "join")
    /\ UNCHANGED <<env, index, installed_sub, state, vac>>

\* (variant: check_missing returns without waiting for the bulk writes)
JoinNoWait(t) ==
    /\ ctl[t].pc = "join"
    /\ state' = StateAfterCheck(t, vac[t])
    /\ hist' = HistAfterCheck(hist, t, vac[t], gen[t], mig[t])
    /\ Goto(t, "clean")
    /\ UNCHANGED <<env, index, installed_sub, vac, gen, mig>>

\* check_missing: await self.migrator.join_futures() returns once no bulk
\* write of this migrator is in flight; check_missing then returns to
\* do_check
Join(t) ==
    /\ ctl[t].pc = "join"
    /\ \A b \in mig[t].inflight : b.pass # hist.passes[t]
    /\ state' = StateAfterCheck(t, vac[t])
    /\ hist' = HistAfterCheck(hist, t, vac[t], gen[t], mig[t])
    /\ Goto(t, "clean")
    /\ UNCHANGED <<env, index, installed_sub, vac, gen, mig>>

\* a bulk write in flight completes: its documents are in the index
BulkDone(t) ==
    /\ \E b \in mig[t].inflight :
          /\ index' = WriteDocs(index, store, b.container,
                                content_sub[b.container], OpIds(store, b.ops))
          /\ mig' = [mig EXCEPT ![t].inflight = @ \ {b}]
    /\ UNCHANGED <<env, installed_sub, state, ctl, vac, gen, hist>>

(* --------------------------- initial states --------------------------- *)
\* the objects whose row and document vary freely
RichObjects == {o \in Objects : o < FirstObject + 2}

ParentChoices(o) == {Container1, Dangling} \cup {p \in Objects : p < o}

\* a parent different from p
OtherParent(p) == IF p = Container1 THEN Dangling ELSE Container1

\* stores for the classification: the rich objects have any parent (a
\* missing one included) and any tid, the others lie under the container
RichStores ==
    DepFuns(Objects,
            LAMBDA o : IF o \in RichObjects
                       THEN [parent_id : ParentChoices(o), tid : 1..MaxTid]
                       ELSE {[parent_id |-> Container1, tid |-> MaxTid]})

\* stores for the traversal: every tree shape below the container
WideStores ==
    DepFuns(Objects,
            LAMBDA o : [parent_id : ParentChoices(o) \ {Dangling}, tid : {1}])

ConsistentDoc(row) == [tid |-> row.tid, parent_uuid |-> row.parent_id]

\* documents: a rich object has none, or one with any version (unknown
\* included) and the same, another or no parent; the others are all
\* missing or all consistent
DocChoices(a) ==
    LET rich(o) ==
            {NODOC} \cup
            [tid : {UNKNOWN_TID} \cup 1..MaxTid,
             parent_uuid : {a[o].parent_id, OtherParent(a[o].parent_id),
                            MISSING_PARENT}]
    IN  UNION {DepFuns(Objects,
                       LAMBDA o : IF o \in RichObjects /\ a \in RichStores
                                  THEN rich(o)
                                  ELSE {IF rest THEN ConsistentDoc(a[o])
                                        ELSE NODOC})
               : rest \in BOOLEAN}

Present(d) == [o \in {x \in DOMAIN d : d[x] # NODOC} |-> d[o]]

DataRows(multi, subs, a, d) ==
    /\ store = MkStore(multi, a)
    /\ content_sub = [c \in {Container1, Container2} |->
                         IF c = Container1 THEN subs ELSE << >>]
    /\ installed_sub = [c \in {Container1, Container2} |->
                           IF c = Container1
                           THEN {subs[k].index : k \in 1..Len(subs)} ELSE {}]
    /\ index = MkIndex(subs, Present(d))

\* rows and documents as given, every row well-formed
DataInit(multi, subs, a, d) ==
    /\ malformed = {}
    /\ DataRows(multi, subs, a, d)

\* the staleness check alone, over rich rows and documents (one scope)
\* or over every tree shape (one or two scopes)
InitMissing ==
    /\ ControlInit
    /\ continuous \in BOOLEAN
    /\ \E multi \in BOOLEAN, subs \in {<< >>, <<SubDescriptor>>} :
         \E a \in (IF multi THEN WideStores ELSE RichStores \cup WideStores) :
           \E d \in DocChoices(a) : DataInit(multi, subs, a, d)

\* rows and documents for the orphan check: any object may have a row,
\* any id may have a document
FlatStores ==
    {[o \in P |-> [parent_id |-> Container1, tid |-> 1]] : P \in SUBSET Objects}

FlatDocs ==
    {[o \in P |-> [tid |-> 1, parent_uuid |-> Container1]] : P \in SUBSET Objects}

InitOrphans ==
    /\ ControlInit
    /\ continuous \in BOOLEAN
    /\ \E multi \in BOOLEAN, subs \in {<< >>, <<SubDescriptor>>} :
         \E a \in FlatStores : \E d \in FlatDocs : DataInit(multi, subs, a, d)

\* both checks together: the first object may have a row, a document,
\* both or neither
SmallObjects == {FirstObject}

Init ==
    /\ ControlInit
    /\ continuous \in BOOLEAN
    /\ \E multi \in BOOLEAN, subs \in {<< >>, <<SubDescriptor>>} :
         \E a \in {f \in FlatStores : DOMAIN f \subseteq SmallObjects} :
           \E d \in {f \in FlatDocs : DOMAIN f \subseteq SmallObjects} :
              DataInit(multi, subs, a, d)

(* ---------------------------- specifications -------------------------- *)
OrchestratorStep(t) ==
    \/ DoCheckLoop(t)
    \/ Sleep(t)
    \/ NextContainer(t)
    \/ Construct(t)
    \/ Setup(t)
    \/ clean_orphan_indexes(t)
    \/ Abort(t)

OrphansStep(t) ==
    \/ CoStart(t)
    \/ EsSearch(t)
    \/ CoFetch(t)
    \/ CoDelete(t)
    \/ EsScroll(t)
    \/ EsScrollTransportError(t)

MissingStep(t) ==
    \/ CmStart(t)
    \/ DbFetch(t)
    \/ FbOpen(t)
    \/ FbMore(t)
    \/ EsLookup(t)
    \/ Classify(t)
    \/ Flush(t)
    \/ Join(t)
    \/ BulkDone(t)

\* run(): both do_check tasks, any call inside the try block may raise
Next ==
    \E t \in Tasks :
        \/ OrchestratorStep(t)
        \/ Throw(t)
        \/ OrphansStep(t)
        \/ MissingStep(t)

Spec == Init /\ [][Next]_vars

\* do_check(arguments, 'check_missing') alone, backends answering
NextMissing ==
    \/ OrchestratorStep("check_missing")
    \/ MissingStep("check_missing")

SpecMissing == InitMissing /\ [][NextMissing]_vars

\* the staleness check of a store with two containers (fallback scan)
InitFallback ==
    /\ ControlInit
    /\ continuous \in BOOLEAN
    /\ \E subs \in {<< >>, <<SubDescriptor>>} :
         \E a \in WideStores :
           \E d \in DocChoices(a) : DataInit(TRUE, subs, a, d)

NextFallback ==
    \/ OrchestratorStep("check_missing")
    \/ CmStart("check_missing")
    \/ FbOpen("check_missing")
    \/ FbMore("check_missing")
    \/ EsLookup("check_missing")
    \/ Classify("check_missing")
    \/ Flush("check_missing")
    \/ Join("check_missing")
    \/ BulkDone("check_missing")

SpecFallback == InitFallback /\ [][NextFallback]_vars

\* do_check(arguments, 'check_orphans') alone; a scroll may fail
NextOrphans ==
    \/ OrchestratorStep("check_orphans")
    \/ OrphansStep("check_orphans")

SpecOrphans == InitOrphans /\ [][NextOrphans]_vars

\* a second container is created under the root while the command runs
AddScope ==
    /\ Container2 \notin DOMAIN store
    /\ store' = Put(store, Container2, [parent_id |-> ROOT_ID, tid |-> 1])
    /\ UNCHANGED <<index, content_sub, installed_sub, continuous, malformed,
                   state, ctl, vac, gen, mig, hist>>

\* the staleness check in a continuous run, one or two scopes at the
\* start, the number of scopes growing at any moment
InitScopes ==
    /\ ControlInit
    /\ continuous = TRUE
    /\ \E multi \in BOOLEAN :
         \E a \in {f \in FlatStores : DOMAIN f \subseteq FirstObject..(FirstObject + 1)} :
           \E d \in {f \in FlatDocs : DOMAIN f \subseteq SmallObjects} :
              DataInit(multi, << >>, a, d)

NextScopes ==
    \/ OrchestratorStep("check_missing")
    \/ MissingStep("check_missing")
    \/ AddScope

SpecScopes == InitScopes /\ [][NextScopes]_vars

\* rows for the two checks together: the first object, and optionally
\* the second (under the container or under the first) and the third
OrderStores ==
    UNION {DepFuns({FirstObject} \cup P,
                   LAMBDA o : IF o = FirstObject + 1
                              THEN [parent_id : {Container1, FirstObject},
                                    tid : {MaxTid}]
                              ELSE {[parent_id |-> Container1, tid |-> MaxTid]})
           : P \in SUBSET {FirstObject + 1, FirstObject + 2}}

\* documents for the two checks together, with or without a row: none,
\* consistent, stale, under another parent, or without a version
OrderDocs ==
    DepFuns(FirstObject .. (FirstObject + 2),
            LAMBDA o :
               IF o = FirstObject
               THEN {NODOC,
                     [tid |-> MaxTid, parent_uuid |-> Container1],
                     [tid |-> 1, parent_uuid |-> Container1],
                     [tid |-> MaxTid, parent_uuid |-> Dangling],
                     [tid |-> UNKNOWN_TID, parent_uuid |-> Container1]}
               ELSE IF o = FirstObject + 1
               THEN {NODOC,
                     [tid |-> MaxTid, parent_uuid |-> FirstObject],
                     [tid |-> 1, parent_uuid |-> FirstObject]}
               ELSE {NODOC, [tid |-> MaxTid, parent_uuid |-> Container1]})

\* run() on one scope, the index at the start kept for reference
InitOrder ==
    /\ ControlStart
    /\ continuous \in BOOLEAN
    /\ \E subs \in {<< >>, <<SubDescriptor>>} :
         \E a \in OrderStores : \E d \in OrderDocs :
            /\ DataInit(FALSE, subs, a, d)
            /\ hist = [NewHist EXCEPT !.index0 = MkIndex(subs, Present(d))]

\* the row of an object is deleted while the command runs
Vanish ==
    /\ \E o \in Objects \cap DOMAIN store : store' = Drop(store, {o})
    /\ UNCHANGED <<index, content_sub, installed_sub, continuous, malformed,
                   state, ctl, vac, gen, mig, hist>>

\* the staleness check over rows of which some do not deserialize and
\* any may vanish; the first object's document, when there is one, is stale
InitVanish ==
    /\ ControlInit
    /\ continuous \in BOOLEAN
    /\ \E multi \in BOOLEAN, a \in OrderStores :
         \E d \in {f \in FlatDocs : DOMAIN f \subseteq SmallObjects} :
           \E bad \in SUBSET ((FirstObject .. (FirstObject + 1)) \cap DOMAIN a) :
              /\ DataRows(multi, << >>, a, d)
              /\ malformed = bad

NextVanish ==
    \/ OrchestratorStep("check_missing")
    \/ MissingStep("check_missing")
    \/ Vanish

SpecVanish == InitVanish /\ [][NextVanish]_vars

\* do_check(arguments, 'check_orphans') alone, the delete-by-query
\* answering with any count or unreadably
NextDegraded ==
    \/ OrchestratorStep("check_orphans")
    \/ OrphansStep("check_orphans")
    \/ CoDeleteDegraded("check_orphans")

SpecDegraded == InitOrphans /\ [][NextDegraded]_vars

\* another process commits a change of an object while the command
\* runs: the row gets a higher tid
Commit ==
    /\ \E o \in Objects \cap DOMAIN store :
          /\ store[o].tid < MaxTid
          /\ store' = [store EXCEPT ![o].tid = @ + 1]
    /\ UNCHANGED <<index, content_sub, installed_sub, continuous, malformed,
                   state, ctl, vac, gen, mig, hist>>

\* run() with backends that answer every call: no call raises and no
\* scroll fails; the event loop gives every task that can go on its turn
AnsweringStep(t) ==
    \/ OrchestratorStep(t)
    \/ CoStart(t)
    \/ EsSearch(t)
    \/ CoFetch(t)
    \/ CoDelete(t)
    \/ EsScroll(t)
    \/ MissingStep(t)

NextRun == \E t \in Tasks : AnsweringStep(t)

SpecRun ==
    Init /\ [][NextRun]_vars /\ \A t \in Tasks : WF_vars(AnsweringStep(t))

\* run() on one scope: the scan of check_missing is the query by tid
\* (the fallback traversal is taken with several containers only)
OrderStep(t) ==
    \/ OrchestratorStep(t)
    \/ CoStart(t)
    \/ EsSearch(t)
    \/ CoFetch(t)
    \/ CoDelete(t)
    \/ EsScroll(t)
    \/ CmStart(t)
    \/ DbFetch(t)
    \/ EsLookup(t)
    \/ Classify(t)
    \/ Flush(t)
    \/ Join(t)
    \/ BulkDone(t)

NextOrder == \E t \in Tasks : OrderStep(t)

SpecOrder == InitOrder /\ [][NextOrder]_vars

\* run() on a store that other processes write to
NextLive == NextRun \/ Commit

SpecLive == Init /\ [][NextLive]_vars

\* run() in a scope whose installed sub-indexes are any of: the one of the
\* sub-index folder, one whose folder is gone
InitClean ==
    /\ ControlInit
    /\ continuous \in BOOLEAN
    /\ malformed = {}
    /\ \E multi \in BOOLEAN, subs \in {<< >>, <<SubDescriptor>>} :
         \E a \in {f \in FlatStores : DOMAIN f \subseteq SmallObjects} :
           \E d \in {f \in FlatDocs : DOMAIN f \subseteq SmallObjects} :
             \E installed \in SUBSET {SubIndexName, LeftoverIndexName} :
                /\ SeqToSet([k \in 1..Len(subs) |-> subs[k].index])
                      \subseteq installed
                /\ store = MkStore(multi, a)
                /\ content_sub = [c \in {Container1, Container2} |->
                                     IF c = Container1 THEN subs ELSE << >>]
                /\ installed_sub = [c \in {Container1, Container2} |->
                                       IF c = Container1 THEN installed ELSE {}]
                /\ index = MkIndex(subs, Present(d))

CleanStep(t) ==
    \/ AnsweringStep(t)
    \/ CleanClose(t)
    \/ CleanDelete(t)

NextClean == \E t \in Tasks : CleanStep(t)

SpecClean ==
    InitClean /\ [][NextClean]_vars /\ \A t \in Tasks : WF_vars(CleanStep(t))

(* ------------------------------ claims -------------------------------- *)

\* C1 (orphan safety): every delete issued by check_orphans names a
\* partition and a page whose existence query (same pass, same page, same
\* partition) has already returned, asks only for ids of that page, and
\* asks for no id that query returned.
C1_OrphanSafety ==
    \A d \in hist.deletes :
        \E q \in hist.queries :
            /\ q.task = d.task /\ q.pass = d.pass
            /\ q.page_no = d.page_no /\ q.index = d.index
            /\ d.ids \subseteq q.keys
            /\ d.ids \cap q.result = {}

\* a delete was issued for a page of which the store returned some ids
C1_Witness ==
    \E d \in hist.deletes : \E q \in hist.queries :
        /\ q.pass = d.pass /\ q.page_no = d.page_no
        /\ d.ids # {} /\ q.result # {}
        /\ \A o \in d.ids : o \notin DOMAIN index[d.index]

\* the condition of the claim: the document is behind the record (and
\* its version is known), or its parent is not the record's
RepairDue(c) ==
    \/ (c.doc.tid < c.tid /\ c.doc.tid # UNKNOWN_TID)
    \/ c.doc.parent_uuid # c.parent_id

\* C2 (staleness monotonicity): for every classified record, other than
\* the scope's root, whose id has a document, check_missing asks for a
\* repair (calls process_missing) iff the document's version is known and
\* below the record's tid, or the parents differ; an operation reaches the
\* migrator only in that case, and always in that case when the object
\* and its ancestors load.
C2_StalenessMonotonicity ==
    \A c \in hist.classified :
        (c.kind # "root" /\ c.doc # NODOC) =>
            /\ (c.kind \in {"out of date", "folder"}) <=> RepairDue(c)
            /\ c.kind # "missing"
            /\ (c.op # "none") => RepairDue(c)
            /\ (RepairDue(c) /\ get_object_ok(store, c.oid)) => c.op # "none"

\* one pass met a stale document under the record's parent, which it
\* repaired, and a document of unknown version, which it left alone
C2_Witness ==
    \E a, b \in hist.classified :
        /\ a.pass = b.pass
        /\ a.doc # NODOC /\ a.doc.parent_uuid = a.parent_id
        /\ a.kind = "out of date" /\ a.op = "index"
        /\ b.doc # NODOC /\ b.doc.tid = UNKNOWN_TID /\ b.kind = "none"

\* C3 (misplaced escalation, as claimed): every record whose document
\* names another parent, and whose object loads, gets a full-subtree
\* reprocess (process_object), whatever the document's version.
C3_MisplacedEscalation ==
    \A c \in hist.classified :
        (/\ c.kind # "root" /\ c.doc # NODOC
         /\ c.doc.parent_uuid # MISSING_PARENT
         /\ c.doc.parent_uuid # c.parent_id
         /\ get_object_ok(store, c.oid)) => c.op = "process"

\* the document of id in the partitions of the scope, when it is as the
\* claim wants it: version >= tid and the store's parent
IndexedOk(c, id) ==
    \E n \in {c} \cup {content_sub[c][k].index : k \in 1..Len(content_sub[c])} :
        /\ id \in DOMAIN index[n]
        /\ index[n][id].tid >= store[id].tid
        /\ index[n][id].parent_uuid = store[id].parent_id

\* C4 (completeness, as claimed): when check_missing has returned after
\* flush and join, every id of the scope is in the index with version >=
\* its tid and the store's parent, or was skipped with a logged reason.
C4_Completeness ==
    \A t \in Tasks :
        (/\ t = "check_missing" /\ ctl[t].pc = "clean"
         /\ \E r \in hist.reports : r.task = t /\ r.pass = hist.passes[t]) =>
            \A id \in Descendants(store, ctl[t].container) :
                \/ IndexedOk(ctl[t].container, id)
                \/ [pass |-> hist.passes[t], oid |-> id] \in hist.skipped

\* C5 (idempotence): a staleness pass over a scope that an earlier
\* iteration already passed over hands no operation to the migrator.
C5_Idempotence ==
    \A c \in hist.classified : c.iter > 0 => c.op = "none"

\* a record repaired by the first pass was classified again by the second
C5_Witness ==
    \E a, b \in hist.classified :
        /\ a.oid = b.oid /\ a.container = b.container
        /\ a.iter = 0 /\ a.op # "none"
        /\ b.iter = 1 /\ b.op = "none" /\ b.kind = "none"

NScopes == Len(ContainerList(store))

Labels == InTry \cup {"loop", "sleep", "containers", "abort", "done"}

\* C6 (scope failure isolation): no exception leaves do_check; whenever a
\* task is back at the head of its loop (or done), it has entered the try
\* block once for every scope of every iteration so far and has aborted
\* the transaction of each, whatever was raised on the way.
C6_ScopeFailureIsolation ==
    \A t \in Tasks :
        /\ ctl[t].pc \in Labels
        /\ ctl[t].pc \in {"loop", "done"} =>
              /\ hist.passes[t] = ctl[t].iter * NScopes
              /\ hist.tm_aborts[t] = hist.passes[t]
        /\ \A f \in hist.raised :
              (f.task = t /\ f.pass = hist.passes[t]) => ctl[t].pc \notin InTry

\* a pass raised in the first of two scopes; the same task finished the
\* pass of the next scope and the other task finished a pass as well
C6_Witness ==
    \E f \in hist.raised : \E r, q \in hist.reports :
        /\ NScopes > 1
        /\ r.task = f.task /\ r.pass > f.pass
        /\ q.task # f.task
        /\ ctl[f.task].pc \in {"loop", "done"}

\* C7 (flush and join before completion): a staleness pass is reported
\* (and its checkpoint written) only with flush called and no repair of
\* the pass left in the batch or in flight; flush is called only once the
\* scanner is exhausted and the last page classified.
C7_FlushAndJoin ==
    /\ \A r \in hist.reports :
          r.task = "check_missing" => (r.flushed /\ r.pending = 0)
    /\ \A f \in hist.flushes : f.exhausted /\ f.classified
    /\ \A w \in hist.writes :
          \E r \in hist.reports : r.task = w.task /\ r.pass = w.pass

\* a reported staleness pass had scheduled a repair, and the document is
\* in the index
C7_Witness ==
    \E r \in hist.reports : \E c \in hist.classified :
        /\ r.task = "check_missing" /\ r.flushed
        /\ c.pass = r.pass /\ c.op # "none"
        /\ IndexedOk(c.container, c.oid)

\* C8 (index scanner degradation): pages are yielded partition after
\* partition; a scroll that failed ends its partition (no later page of
\* it), the scan goes on with the next partition when there is one, and
\* the pass is reported, not failed.
C8_IndexScannerDegradation ==
    /\ \A i, j \in 1..Len(hist.yields) :
          (i < j /\ hist.yields[i].pass = hist.yields[j].pass) =>
              hist.yields[i].ipos <= hist.yields[j].ipos
    /\ \A b \in hist.broken :
          LET reported == \E r \in hist.reports :
                              r.task = b.task /\ r.pass = b.pass
              later == {k \in (b.yielded + 1)..Len(hist.yields) :
                           hist.yields[k].pass = b.pass}
          IN  /\ \A k \in later : hist.yields[k].ipos > b.ipos
              /\ \/ reported
                 \/ /\ hist.passes[b.task] = b.pass
                    /\ ctl[b.task].pc \in
                          {"es_search", "co_fetch", "co_delete", "es_scroll"}
              /\ (reported /\ b.ipos < b.n) =>
                    \E k \in later : hist.yields[k].ipos = b.ipos + 1

\* the scroll of the main index failed after its first page, ids of the
\* main index were never yielded, the sub-index was scanned and the pass
\* was reported
C8_Witness ==
    \E b \in hist.broken :
        /\ b.ipos = 1 /\ b.n = 2 /\ b.yielded >= 1
        /\ \E r \in hist.reports : r.task = b.task /\ r.pass = b.pass
        /\ \E k \in (b.yielded + 1)..Len(hist.yields) :
              hist.yields[k].pass = b.pass /\ hist.yields[k].ipos = 2
        /\ \E o \in DOMAIN index[Container1] :
              \A k \in 1..Len(hist.yields) :
                  hist.yields[k].pass = b.pass =>
                      o \notin SeqToSet(hist.yields[k].page)

\* C9 (checkpoint resumption, as claimed): an ordered scan set up with a
\* checkpoint s yields no record whose tid is below s.
C9_CheckpointLowerBound ==
    \A s \in hist.scanned :
        (s.ordered /\ s.lower # DEFAULT_LAST_TID) => s.tid >= s.lower

\* C10 (checkpoint write point, as claimed): the checkpoint is written
\* only by a staleness pass, with the last tid that pass observed; the
\* orphan pass writes none.
C10_CheckpointWritePoint ==
    \A w \in hist.writes :
        /\ w.task = "check_missing"
        /\ \E s \in hist.scanned : s.pass = w.pass /\ s.tid = w.value

\* the reports of task t for scope c
ReportsOf(t, c) == {r \in hist.reports : r.task = t /\ r.container = c}

\* C11 (orchestrator loop and termination): with backends that answer,
\* a run that is not continuous ends with both tasks done, each after
\* exactly one reported pass over every scope; a continuous run never
\* ends and goes on to every further iteration; a task inside its k-th
\* iteration (k = 0 for the first) has slept exactly k times.
C11_LoopAndTermination ==
    /\ [](\A t \in Tasks :
            /\ ctl[t].pc \notin {"loop", "sleep", "done"} =>
                  hist.sleeps[t] = ctl[t].iter
            /\ ctl[t].pc = "done" =>
                  /\ ~continuous
                  /\ hist.passes[t] = NScopes
                  /\ \A k \in 1..NScopes :
                        Cardinality(ReportsOf(t, ContainerList(store)[k])) = 1)
    /\ <>(continuous \/ \A t \in Tasks : ctl[t].pc = "done")
    /\ <>(~continuous \/ \A t \in Tasks : ctl[t].iter = MaxIter)

\* a run over two scopes that is not continuous has ended: both tasks are
\* done, neither has slept, and each reported both scopes
C11_Witness ==
    /\ ~continuous /\ NScopes = 2
    /\ \A t \in Tasks :
          /\ ctl[t].pc = "done" /\ hist.sleeps[t] = 0
          /\ \A k \in 1..NScopes : ReportsOf(t, ContainerList(store)[k]) # {}

\* C12 (fallback traversal coverage, as claimed): when the fallback
\* traversal of a pass is over, every row below the scope's root, at any
\* depth, was yielded by it.
C12_FallbackCoverage ==
    \A t \in Tasks :
        (ctl[t].pc = "flush" /\ ~vac[t].use_tid_query) =>
            \A id \in Descendants(store, ctl[t].container) :
                \E s \in hist.scanned :
                    /\ s.pass = hist.passes[t] /\ s.zoid = id /\ ~s.ordered

\* C13 (scan mode selection): a staleness pass scans in tid order iff
\* the containers query of its start returned exactly one scope; what it
\* yields comes from the scan it chose; a fallback pass ends with the
\* last_tid it was constructed with.
C13_ScanModeSelection ==
    /\ \A m \in hist.modes : m.ordered <=> (m.scopes = 1)
    /\ \A s \in hist.scanned : \A m \in hist.modes :
          s.pass = m.pass => (s.ordered <=> m.ordered)
    /\ \A r \in hist.reports : \A m \in hist.modes :
          (r.task = "check_missing" /\ r.pass = m.pass /\ ~m.ordered) =>
              r.last_tid = m.start

\* a pass constructed with a checkpoint found two scopes, walked the
\* children of its root and was reported with the checkpoint unchanged
C13_Witness ==
    \E m \in hist.modes : \E r \in hist.reports : \E s \in hist.scanned :
        /\ ~m.ordered /\ m.scopes = 2 /\ m.start > 0
        /\ r.task = "check_missing" /\ r.pass = m.pass /\ r.last_tid = m.start
        /\ s.pass = m.pass /\ ~s.ordered

\* the document of c is behind the record and its version is known
Behind(c) == c.doc.tid < c.tid /\ c.doc.tid # UNKNOWN_TID

\* C14 (missing and consistent classification): a record other than the
\* scope's root whose id has no document is classified missing and gets
\* the single-object index operation (when the object loads), never the
\* reprocess; a record whose document is not behind (or has no version)
\* and names the record's parent gets no operation; the four classes are
\* decided by conditions that exclude one another.
C14_MissingAndConsistent ==
    \A c \in hist.classified :
        c.kind # "root" =>
            /\ c.kind \in {"missing", "out of date", "folder", "none"}
            /\ (c.kind = "missing") <=> (c.doc = NODOC)
            /\ (c.kind = "out of date") <=> (c.doc # NODOC /\ Behind(c))
            /\ (c.kind = "folder") <=>
                   (c.doc # NODOC /\ ~Behind(c) /\ c.doc.parent_uuid # c.parent_id)
            /\ (c.kind = "none") <=>
                   (c.doc # NODOC /\ ~Behind(c) /\ c.doc.parent_uuid = c.parent_id)
            /\ c.doc = NODOC =>
                   c.op = (IF get_object_ok(store, c.oid) THEN "index" ELSE "none")
            /\ c.kind = "none" => c.op = "none"

\* one pass met an id without a document, for which it scheduled the
\* single-object index operation, and a record whose document carries a
\* newer version and the same parent, which it left alone
C14_Witness ==
    \E a, b \in hist.classified :
        /\ a.pass = b.pass /\ a.oid # b.oid
        /\ a.doc = NODOC /\ a.kind = "missing" /\ a.op = "index"
        /\ b.doc # NODOC /\ b.doc.tid > b.tid /\ b.doc.parent_uuid = b.parent_id
        /\ b.kind = "none"

Scope0 == Container1
Subs0 == content_sub[Scope0]
Rows0 == DOMAIN store \ {ROOT_ID, TRASHED_ID, Scope0}
Seen0(y) ==
    EsBatch(hist.index0, get_indexes_for_oids(Scope0, Subs0, <<y>>), <<y>>)
Op0(y) ==
    LET kind == Classification(RowOf(store, y), Seen0(y), Scope0)
    IN  IF kind \in {"root", "none"} THEN "none"
        ELSE process_missing(store, y, kind = "folder")
Repaired0 ==
    UNION {IF Op0(y) = "none" THEN {}
           ELSE {y} \cup (IF Op0(y) = "process"
                          THEN Descendants(store, y) ELSE {})
           : y \in Rows0}
Partitions0 == {Scope0} \cup {Subs0[k].index : k \in 1..Len(Subs0)}
ExpectedIndex ==
    WriteDocs([n \in IndexNames |->
                  IF n \in Partitions0
                  THEN Drop(hist.index0[n], DOMAIN hist.index0[n] \ DOMAIN store)
                  ELSE hist.index0[n]],
              store, Scope0, Subs0, Repaired0)

\* both tasks are between two sweeps, the first sweep behind them
AtRest ==
    \A t \in Tasks : ctl[t].pc \in {"loop", "sleep", "done"} /\ ctl[t].iter >= 1

\* C16 (order independence): whatever the interleaving of the two checks
\* of one scope, once both have finished the index is the one the index
\* of the start and the store determine; no delete names an id that has
\* a row; every id without a row that a scroll page returned is gone
\* from the partition of that page.
C16_OrderIndependence ==
    /\ AtRest => index = ExpectedIndex
    /\ \A d \in hist.deletes : d.ids \cap DOMAIN store = {}
    /\ AtRest =>
          \A k \in 1..Len(hist.yields) :
              \A o \in SeqToSet(hist.yields[k].page) :
                  o \notin DOMAIN store =>
                      o \notin DOMAIN index[hist.yields[k].index]

\* both checks have finished a scope in which the orphan check deleted
\* and the staleness check reprocessed a subtree, in their first sweep
C16_Witness ==
    /\ AtRest
    /\ hist.deletes # {}
    /\ \E c \in hist.classified : c.op = "process"
    /\ \E r, q \in hist.reports :
          /\ r.task = "check_missing" /\ q.task = "check_orphans"
          /\ q.iter = 0 /\ r.iter = 0
    /\ index # hist.index0

\* C17 (vanished object is skipped): when process_missing is called for
\* an id whose object, or an ancestor, has no row or a row that does not
\* deserialize, no operation is handed to the migrator, the skip is
\* logged, and the pass goes on: it is still running, or was reported.
C17_VanishedObjectSkipped ==
    \A c \in hist.classified :
        (c.kind \notin {"root", "none"} /\ ~c.loaded) =>
            /\ c.op = "none"
            /\ [pass |-> c.pass, oid |-> c.oid] \in hist.skipped
            /\ \/ \E r \in hist.reports :
                      r.task = "check_missing" /\ r.pass = c.pass
               \/ /\ hist.passes["check_missing"] = c.pass
                  /\ ctl["check_missing"].pc \in
                        {"db_fetch", "fb_open", "fb_more", "es_lookup",
                         "classify", "flush", "join"}

\* in one reported pass an id whose row had vanished and an id whose row
\* does not deserialize were skipped, and a later record was repaired
C17_Witness ==
    \E a, b, c \in hist.classified :
        /\ a.pass = b.pass /\ b.pass = c.pass
        /\ a.oid \notin DOMAIN store /\ ~a.loaded /\ a.op = "none"
        /\ b.oid \in malformed /\ ~b.loaded /\ b.op = "none"
        /\ c.oid > a.oid /\ c.oid > b.oid /\ c.op = "index"
        /\ \E r \in hist.reports : r.task = "check_missing" /\ r.pass = c.pass

\* C18 (delete count mismatch is not fatal): after a delete-by-query whose
\* reported count differs from the number of ids sent, or whose response
\* cannot be read, a warning is logged and nothing is raised; the ids stay
\* in the orphaned set the pass reports; the pass goes on.
C18_DeleteCountMismatch ==
    \A d \in hist.deletes :
        (~d.readable \/ d.deleted # Cardinality(d.ids)) =>
            /\ d.log \notin {"none", "raise"}
            /\ \/ \E r \in hist.reports :
                      /\ r.task = d.task /\ r.pass = d.pass
                      /\ d.ids \subseteq r.orphaned
               \/ /\ hist.passes[d.task] = d.pass
                  /\ ctl[d.task].pc \in
                        {"es_search", "co_fetch", "co_delete", "es_scroll"}
                  /\ d.ids \subseteq vac[d.task].orphaned

\* a delete of the first page reported fewer deletions than ids sent and
\* left an id in the index; the next page was checked and the pass was
\* reported with the id among its orphans
C18_Witness ==
    \E d \in hist.deletes : \E q \in hist.queries : \E r \in hist.reports :
        /\ d.readable /\ d.deleted < Cardinality(d.ids)
        /\ \E o \in d.ids : o \in DOMAIN index[d.index]
        /\ q.task = d.task /\ q.pass = d.pass /\ q.page_no > d.page_no
        /\ r.task = d.task /\ r.pass = d.pass /\ d.ids \subseteq r.orphaned

\* C19 (checkpoint never goes back, as claimed): no write of the
\* checkpoint of a scope puts a value below the one it replaces.
C19_CheckpointMonotone ==
    \A w \in hist.writes : w.value >= w.read

\* C20 (sub-index cleanup safety): every close and every delete issued by
\* clean_orphan_indexes names an alias that is not among the content
\* sub-indexes of the scope at that moment; no step of the run takes an
\* installed alias that is among the content sub-indexes away; a cleanup
\* that fails (the index is already gone) is followed by the abort of
\* the pass and the task is never left; and every task goes through all its
\* passes.
PassOver(t, pass) ==
    \/ hist.tm_aborts[t] >= pass
    \/ ctl[t].pc = "abort" /\ hist.passes[t] = pass

RunOver(t) ==
    \/ ctl[t].pc = "done"
    \/ ctl[t].pc = "loop" /\ ctl[t].iter = MaxIter

C20_CleanupSafety ==
    /\ [](/\ \A r \in hist.closed \cup hist.removed :
                r.alias \notin r.content
          /\ \A f \in hist.cleanup_errors : PassOver(f.task, f.pass)
          /\ \A t \in Tasks : ctl[t].pc # "crashed")
    /\ [][\A c \in {Container1, Container2} :
            \A alias \in installed_sub[c] \cap ContentIndexes(c) :
                alias \in installed_sub'[c]]_vars
    /\ <>(\A t \in Tasks : RunOver(t))

\* one loop deleted the leftover index, the cleanup of the other loop
\* failed on it and that loop went on to finish; the sub-index of the
\* content folder is still installed
C20_Witness ==
    /\ \E f \in hist.cleanup_errors : \E r \in hist.removed :
          /\ r.alias = f.alias
          /\ r.task # f.task
          /\ RunOver(f.task)
    /\ SubIndexName \in ContentIndexes(Container1)
    /\ SubIndexName \in installed_sub[Container1]

====
